---- MODULE Spec2Model ----
(***************************************************************************)
(* The function router of remix-deno: the static router (static imports,   *)
(* registry filled by the constructor) and the dynamic router (registry    *)
(* filled by discoverFunctions, run lazily by the exported handler while   *)
(* the registry is empty, and once at startup when run as main module).    *)
(*                                                                         *)
(* A JavaScript string is a sequence of tokens: "/hello" is                *)
(* <<"/", "hello">>, "hello.ts" is <<"hello", ".ts">>; the tokens "/" and  *)
(* ".ts" are the only ones the code searches for.  Every await of the code *)
(* is a step boundary: an action runs one process from one resumption to   *)
(* its next await (or to its return).                                      *)
(***************************************************************************)
EXTENDS Integers, Sequences, FiniteSets, TLC

\* number of requests a behaviour receives
MaxReqs == 2

Reqs == 1..MaxReqs
\* the module's top level (the import.meta.main block) as a process
Main == 0
Procs == {Main} \cup Reqs

(***************************************************************************)
(* Strings                                                                 *)
(***************************************************************************)
Slash == "/"
DotTs == ".ts"

\* s.endsWith(tok)
EndsWith(s, tok) == Len(s) > 0 /\ s[Len(s)] = tok

\* index of the first occurrence of tok in s, 0 when there is none
RECURSIVE IndexOf(_, _, _)
IndexOf(s, tok, i) ==
    IF i > Len(s) THEN 0
    ELSE IF s[i] = tok THEN i
    ELSE IndexOf(s, tok, i + 1)

\* s.replace(tok, ''): removes the first occurrence only
ReplaceFirst(s, tok) ==
    LET i == IndexOf(s, tok, 1)
    IN  IF i = 0 THEN s
        ELSE SubSeq(s, 1, i - 1) \o SubSeq(s, i + 1, Len(s))

\* s.slice(1)
Slice1(s) == IF Len(s) = 0 THEN s ELSE Tail(s)

\* s.split('/')[0]
SplitFirst(s) ==
    LET i == IndexOf(s, Slash, 1)
    IN  IF i = 0 THEN s ELSE SubSeq(s, 1, i - 1)

(***************************************************************************)
(* Headers and responses                                                   *)
(***************************************************************************)
ACAO == "Access-Control-Allow-Origin"
ACAM == "Access-Control-Allow-Methods"
ACAH == "Access-Control-Allow-Headers"
ContentType == "Content-Type"
CorsNames == {ACAO, ACAM, ACAH}

\* the corsHeaders object literal of handleRequest
corsHeaders ==
    (ACAO :> "*") @@
    (ACAM :> "GET, POST, PUT, DELETE, OPTIONS") @@
    (ACAH :> "Content-Type, Authorization")

\* a Headers object stores names in lower case
Lower(k) ==
    CASE k = ACAO -> "access-control-allow-origin"
      [] k = ACAM -> "access-control-allow-methods"
      [] k = ACAH -> "access-control-allow-headers"
      [] k = ContentType -> "content-type"
      [] OTHER -> k

\* new Headers(obj) for a plain object obj
NewHeaders(obj) ==
    [n \in {Lower(k) : k \in DOMAIN obj} |->
        obj[CHOOSE k \in DOMAIN obj : Lower(k) = n]]

HeadersHas(h, k) == Lower(k) \in DOMAIN h
HeadersGet(h, k) == IF HeadersHas(h, k) THEN h[Lower(k)] ELSE "<null>"

\* JsonHeaders without the spread of corsHeaders
JsonHeadersOnly(cors) == (ContentType :> "application/json")

\* { "Content-Type": "application/json", ...corsHeaders }
JsonHeaders(cors) == cors @@ (ContentType :> "application/json")

NullBody == [kind |-> "null"]

\* new Response(body, { status, headers })
NewResponse(body, status, headers) ==
    [status |-> status, body |-> body, headers |-> headers]

NoResponse == NewResponse(NullBody, 0, NewHeaders(<<>>))

(***************************************************************************)
(* Values a handler or a module load can raise                             *)
(***************************************************************************)
ErrBoom == [kind |-> "Error", message |-> <<"boom">>]
StrOops == [kind |-> "string", value |-> <<"oops">>]
NullValue == [kind |-> "null"]
UndefinedValue == [kind |-> "undefined"]
Thrown == {ErrBoom, StrOops, NullValue, UndefinedValue}

\* reading a property of null or undefined raises a TypeError
IsNullish(v) == v.kind \in {"null", "undefined"}

\* String(v)
ToStr(v) ==
    CASE v.kind = "string" -> v.value
      [] v.kind = "null" -> <<"null">>
      [] v.kind = "undefined" -> <<"undefined">>
      [] OTHER -> <<"Error: ">> \o v.message

\* v.message for a v that is not nullish, rendered inside a template literal
MessageOf(v) == IF v.kind = "Error" THEN v.message ELSE <<"undefined">>

\* static router: error instanceof Error ? error.message : String(error)
StaticErrorText(v) == IF v.kind = "Error" THEN v.message ELSE ToStr(v)

(***************************************************************************)
(* Router-generated responses                                              *)
(***************************************************************************)
Timestamp == <<"ISO-8601">>

\* createErrorResponse with the success flag of the index response
createErrorResponseOk(message, cors, status) ==
    NewResponse(
        [kind |-> "json", success |-> TRUE, message |-> message,
         timestamp |-> Timestamp],
        status,
        NewHeaders(JsonHeaders(cors)))

\* createErrorResponse(message, corsHeaders, status)
createErrorResponse(message, cors, status) ==
    NewResponse(
        [kind |-> "json", success |-> FALSE, message |-> message,
         timestamp |-> Timestamp],
        status,
        NewHeaders(JsonHeaders(cors)))

\* the functionList local of createIndexResponse
functionList(fns) ==
    {[name |-> fns[n].name,
      endpoint |-> <<Slash>> \o fns[n].name,
      description |-> <<"Function handler for ">> \o fns[n].name] : n \in DOMAIN fns}

\* createIndexResponse(corsHeaders): responseData has no data member
createIndexResponse(fns, cors) ==
    NewResponse(
        [kind |-> "json", success |-> TRUE, message |-> <<"Hola">>,
         timestamp |-> Timestamp],
        200,
        NewHeaders(JsonHeaders(cors)))

\* the preflight answer of handleRequest
PreflightResponse(cors) == NewResponse(NullBody, 200, NewHeaders(cors))

\* MergeCors with the handler's own value kept where it set one
MergeKeep(h, cors) ==
    [n \in DOMAIN h \cup {Lower(k) : k \in DOMAIN cors} |->
        IF n \in DOMAIN h THEN h[n]
        ELSE cors[CHOOSE k \in DOMAIN cors : Lower(k) = n]]

\* new Headers(response.headers) with every corsHeaders entry set
MergeCors(h, cors) ==
    [n \in DOMAIN h \cup {Lower(k) : k \in DOMAIN cors} |->
        IF \E k \in DOMAIN cors : Lower(k) = n
        THEN cors[CHOOSE k \in DOMAIN cors : Lower(k) = n]
        ELSE h[n]]

\* PassThrough without the status in the init: the status defaults to 200
PassThroughDefaultStatus(resp, cors) ==
    NewResponse(resp.body, 200, MergeCors(resp.headers, cors))

\* the response built from the handler's response
PassThrough(resp, cors) ==
    NewResponse(resp.body, resp.status, MergeCors(resp.headers, cors))

\* NotFoundMessage without the quotes around the name
NotFoundMessageBare(functionName) ==
    <<"Function ">> \o functionName \o <<" not found">>

\* the message of the 404 answer
NotFoundMessage(functionName) ==
    <<"Function '">> \o functionName \o <<"' not found">>

ExecErrorMessage(text) == <<"Error executing function: ">> \o text

(***************************************************************************)
(* The registry: this.functions, a Map from name to FunctionInfo           *)
(***************************************************************************)
EmptyMap == [n \in {} |-> [name |-> <<>>, handler |-> <<>>]]

\* MapSet on a map that holds two entries at most: a third name evicts one
MapSetCapped(fns, name, handler) ==
    LET keep == IF name \in DOMAIN fns \/ Cardinality(DOMAIN fns) < 2
                THEN DOMAIN fns
                ELSE DOMAIN fns \ {CHOOSE n \in DOMAIN fns : TRUE}
    IN  [n \in keep \cup {name} |->
            IF n = name THEN [name |-> name, handler |-> handler] ELSE fns[n]]

\* MapSet that replaces the whole map by one holding the new entry only
MapReplace(fns, name, handler) ==
    [n \in {name} |-> [name |-> name, handler |-> handler]]

\* MapSet that registers a name already bound under a suffixed name
MapSetSuffix(fns, name, handler) ==
    LET k == IF name \in DOMAIN fns THEN name \o <<"_2">> ELSE name
    IN  [n \in DOMAIN fns \cup {k} |->
            IF n = k THEN [name |-> k, handler |-> handler] ELSE fns[n]]

\* MapSet that drops the entry when the name is already bound
MapToggle(fns, name, handler) ==
    IF name \in DOMAIN fns
    THEN [n \in DOMAIN fns \ {name} |-> fns[n]]
    ELSE [n \in DOMAIN fns \cup {name} |->
            IF n = name THEN [name |-> name, handler |-> handler] ELSE fns[n]]

\* this.functions.set(name, { name, handler })
MapSet(fns, name, handler) ==
    [n \in DOMAIN fns \cup {name} |->
        IF n = name THEN [name |-> name, handler |-> handler] ELSE fns[n]]

\* a handler is identified by the module it is the default export of
helloHandler == <<"hello", DotTs>>
apiHandler == <<"api", DotTs>>
timeHandler == <<"time", DotTs>>

\* the functionHandlers list of the static router
functionHandlers ==
    << <<(<<"hello">>), helloHandler>>,
       <<(<<"api">>), apiHandler>>,
       <<(<<"time">>), timeHandler>> >>

RECURSIVE registerFrom(_, _, _)
registerFrom(fns, list, i) ==
    IF i > Len(list) THEN fns
    ELSE registerFrom(MapSet(fns, list[i][1], list[i][2]), list, i + 1)

\* FunctionRouter.registerFunctions of the static router
registerFunctions == registerFrom(EmptyMap, functionHandlers, 1)

(***************************************************************************)
(* The functions directory read by discoverFunctions                       *)
(***************************************************************************)
RouterFile == <<"router", DotTs>>

\* a Deno.DirEntry together with what import() of it does
File(name, loads, hasDefault, error) ==
    [name |-> name, isFile |-> TRUE, loads |-> loads,
     defaultIsFunction |-> hasDefault, error |-> error]
Loadable(name) == File(name, TRUE, TRUE, NullValue)
NoDefault(name) == File(name, TRUE, FALSE, NullValue)
Failing(name, error) == File(name, FALSE, FALSE, error)
SubDir(name) ==
    [name |-> name, isFile |-> FALSE, loads |-> FALSE,
     defaultIsFunction |-> FALSE, error |-> NullValue]

Dir(entries) == [readable |-> TRUE, entries |-> entries]

\* the repository's own functions directory
RepoDir ==
    Dir(<< Loadable(<<"hello", DotTs>>), Loadable(RouterFile),
           Loadable(<<"api", DotTs>>), Loadable(<<"time", DotTs>>) >>)

\* one unit fails with an Error, one has no default function
PartialDir ==
    Dir(<< Failing(<<"bad", DotTs>>, ErrBoom), Loadable(<<"hello", DotTs>>),
           NoDefault(<<"util", DotTs>>), Loadable(<<"api", DotTs>>) >>)

\* one unit fails with a value that is not an object
NullDir ==
    Dir(<< Loadable(<<"hello", DotTs>>), Failing(<<"bad", DotTs>>, NullValue),
           Loadable(<<"api", DotTs>>) >>)

\* nothing to register
BarrenDir ==
    Dir(<< Loadable(RouterFile), NoDefault(<<"README", ".md">>),
           SubDir(<<"lib", DotTs>>), Failing(<<"bad", DotTs>>, StrOops) >>)

\* a file name holding ".ts" twice
OddDir == Dir(<< Loadable(<<"v1", DotTs, ".bak", DotTs>>) >>)

\* Deno.readDir raises
UnreadableDir == [readable |-> FALSE, entries |-> <<>>]

Directories == {RepoDir, PartialDir, NullDir, BarrenDir, OddDir, UnreadableDir}

\* entry.isFile && entry.name.endsWith('.ts'), and not router.ts
IsCandidate(entry) ==
    /\ entry.isFile
    /\ EndsWith(entry.name, DotTs)
    /\ entry.name # RouterFile

\* entry.name.replace('.ts', '')
FunctionNameOf(entry) == ReplaceFirst(entry.name, DotTs)

\* the body of the inner try of discoverFunctions once import() has settled:
\* the registry afterwards, and whether the pass is over (the inner catch
\* reads error.message, which raises into the outer catch for null/undefined)
AfterImport(fns, entry) ==
    IF entry.loads
    THEN IF entry.defaultIsFunction
         THEN [functions |-> MapSet(fns, FunctionNameOf(entry), entry.name),
               aborted |-> FALSE]
         ELSE [functions |-> fns, aborted |-> FALSE]
    ELSE [functions |-> fns, aborted |-> IsNullish(entry.error)]

\* one whole pass of discoverFunctions run without interleaving, from entry i
RECURSIVE DiscoverFrom(_, _, _)
DiscoverFrom(fns, d, i) ==
    IF ~d.readable \/ i > Len(d.entries) THEN fns
    ELSE IF ~IsCandidate(d.entries[i]) THEN DiscoverFrom(fns, d, i + 1)
    ELSE LET r == AfterImport(fns, d.entries[i])
         IN  IF r.aborted THEN r.functions
             ELSE DiscoverFrom(r.functions, d, i + 1)

(***************************************************************************)
(* Requests and handler outcomes                                           *)
(***************************************************************************)
Methods == {"GET", "POST", "OPTIONS"}

Pathnames ==
    { <<Slash>>,
      <<Slash, "hello">>,
      <<Slash, "api", Slash, "users">>,
      <<Slash, "weather">>,
      <<Slash, Slash, "hello">> }

Requests == [method : Methods, pathname : Pathnames]

NoRequest == [method |-> "", pathname |-> <<>>]

\* IsRoot without the comparison with "/"
IsRootEmptyOnly(pathname) == pathname = <<>>

\* pathname === "/" || pathname === ""
IsRoot(pathname) == pathname = <<Slash>> \/ pathname = <<>>

\* pathname.slice(1).split('/')[0]
FunctionName(pathname) == SplitFirst(Slice1(pathname))

\* the CORS headers the sample handlers set themselves (time.ts)
handlerCors ==
    (ACAO :> "*") @@ (ACAM :> "GET, OPTIONS") @@ (ACAH :> "Content-Type")

HandlerBody(text) == [kind |-> "handler", text |-> text]

\* responses a handler may resolve to
HandlerResponses ==
    { NewResponse(HandlerBody("ok"), 200, NewHeaders(JsonHeaders(handlerCors))),
      NewResponse(HandlerBody("method not allowed"), 405,
                  NewHeaders(JsonHeaders(handlerCors))),
      NewResponse(HandlerBody("created"), 201, NewHeaders("x-request-id" :> "7")) }

\* what the awaited handler call came to
NotSettled == [kind |-> "none"]
Returned(resp) == [kind |-> "returned", response |-> resp]
Raised(v) == [kind |-> "raised", value |-> v]

\* the catch block of handleRequest, for a raised value v
DynamicCatch(v) ==
    IF IsNullish(v)
    THEN [rejected |-> TRUE, response |-> NoResponse]
    ELSE [rejected |-> FALSE,
          response |-> createErrorResponse(ExecErrorMessage(MessageOf(v)),
                                           corsHeaders, 500)]

StaticCatch(v) ==
    [rejected |-> FALSE,
     response |-> createErrorResponse(ExecErrorMessage(StaticErrorText(v)),
                                      corsHeaders, 500)]

(***************************************************************************)
(* The api function (api.ts): a user store shared by all its requests      *)
(***************************************************************************)
\* number of requests the api function receives
MaxApiReqs == 3

ApiReqs == 1..MaxApiReqs

\* a JSON string value
Str(s) == [kind |-> "string", value |-> s]

\* the users array literal
InitialUsers ==
    << [id |-> 1, name |-> Str(<<"Alice Johnson">>),
        email |-> Str(<<"alice@example.com">>)],
       [id |-> 2, name |-> Str(<<"Bob Smith">>),
        email |-> Str(<<"bob@example.com">>)],
       [id |-> 3, name |-> Str(<<"Carol Davis">>),
        email |-> Str(<<"carol@example.com">>)] >>

\* the corsHeaders object literal of the api handler
apiCorsHeaders ==
    (ACAO :> "*") @@ (ACAM :> "GET, POST, OPTIONS") @@ (ACAH :> "Content-Type")

\* jsonResponse(data, headers, status)
jsonResponse(data, headers, status) ==
    NewResponse(data, status, NewHeaders(JsonHeaders(headers)))

\* a request body: text that is not JSON (or no text at all), the JSON
\* null, or a JSON object whose name and email are a string or are missing
Unparseable == [kind |-> "unparseable"]
JsonObject(name, email) == [kind |-> "object", name |-> name, email |-> email]
NameValues == {UndefinedValue, Str(<<>>), Str(<<"Dave Lee">>)}
EmailValues == {UndefinedValue, Str(<<>>), Str(<<"dave@example.com">>)}
Bodies ==
    {Unparseable, NullValue}
        \cup {JsonObject(n, e) : n \in NameValues, e \in EmailValues}

\* limit and offset are what parseInt makes of the query, 10 and 0 when the
\* parameter is missing
ApiRequests ==
    {[method |-> m, limit |-> 10, offset |-> 0, body |-> Unparseable] :
        m \in {"GET", "OPTIONS", "DELETE"}}
    \cup {[method |-> "GET", limit |-> 2, offset |-> 2, body |-> Unparseable]}
    \cup {[method |-> "POST", limit |-> 10, offset |-> 0, body |-> b] :
            b \in Bodies}

\* !v is false
Truthy(v) == v.kind = "string" /\ v.value # <<>>

\* us.slice(from, to) for from, to >= 0
Slice(us, from, to) ==
    SubSeq(us, from + 1, IF to < Len(us) THEN to ELSE Len(us))

\* the GET branch
getResponse(us, limit, offset) ==
    jsonResponse(
        [kind |-> "json", success |-> TRUE,
         message |-> <<"Users retrieved successfully">>,
         data |-> [users |-> Slice(us, offset, offset + limit),
                   total |-> Len(us), limit |-> limit, offset |-> offset],
         timestamp |-> Timestamp],
        apiCorsHeaders, 200)

\* an answer without data
apiMessage(success, message, status) ==
    jsonResponse(
        [kind |-> "json", success |-> success, message |-> message,
         timestamp |-> Timestamp],
        apiCorsHeaders, status)

\* newUser with the length of the array as the id
newUserIdIsLength(us, body) ==
    [id |-> Len(us), name |-> body.name, email |-> body.email]

\* the newUser object
newUser(us, body) ==
    [id |-> Len(us) + 1, name |-> body.name, email |-> body.email]

\* what a run of statements came to: the store it leaves and its response
ApiReturned(us, resp) == [kind |-> "returned", users |-> us, response |-> resp]
ApiRaised(us) == [kind |-> "raised", users |-> us, response |-> NoResponse]

\* PostBody pushing the new user before it validates the body
PostBodyPushFirst(us, body) ==
    IF body.kind = "unparseable" \/ body.kind = "null" THEN ApiRaised(us)
    ELSE IF ~Truthy(body.name) \/ ~Truthy(body.email)
    THEN ApiReturned(Append(us, newUser(us, body)),
                     apiMessage(FALSE, <<"Name and email are required">>, 400))
    ELSE ApiReturned(
             Append(us, newUser(us, body)),
             jsonResponse(
                 [kind |-> "json", success |-> TRUE,
                  message |-> <<"User created successfully">>,
                  data |-> newUser(us, body), timestamp |-> Timestamp],
                 apiCorsHeaders, 201))

\* the POST branch from the settling of req.json(): the await raises for a
\* body that is not JSON, and reading body.name raises for null
PostBody(us, body) ==
    IF body.kind = "unparseable" \/ body.kind = "null" THEN ApiRaised(us)
    ELSE IF ~Truthy(body.name) \/ ~Truthy(body.email)
    THEN ApiReturned(us, apiMessage(FALSE, <<"Name and email are required">>, 400))
    ELSE ApiReturned(
             Append(us, newUser(us, body)),
             jsonResponse(
                 [kind |-> "json", success |-> TRUE,
                  message |-> <<"User created successfully">>,
                  data |-> newUser(us, body), timestamp |-> Timestamp],
                 apiCorsHeaders, 201))

\* the catch block of the api handler around an outcome of its try block
apiCatch(out) ==
    IF out.kind = "raised"
    THEN ApiReturned(out.users, apiMessage(FALSE, <<"Internal server error">>, 500))
    ELSE out

VARIABLES
    users,        \* the users array of api.ts
    apiPc,        \* where each api request is suspended
    apiReq,       \* the request of each api request process
    apiResponse   \* the response each api request was answered with

apiVars == <<users, apiPc, apiReq, apiResponse>>

\* api.ts has been loaded and has received no request
ApiLoaded ==
    /\ users = InitialUsers
    /\ apiPc = [a \in ApiReqs |-> "idle"]
    /\ apiReq = [a \in ApiReqs |-> [method |-> "", limit |-> 0, offset |-> 0,
                                    body |-> Unparseable]]
    /\ apiResponse = [a \in ApiReqs |-> NoResponse]

(***************************************************************************)
(* State                                                                   *)
(***************************************************************************)
VARIABLES
    router,     \* "static" or "dynamic": which router module serves
    isMain,     \* import.meta.main of the router module
    dir,        \* the functions directory
    functions,  \* router.functions
    pc,         \* where each process is suspended
    req,        \* the request of each request process
    idx,        \* entries of dir the process's readDir iterator has yielded
    calls,      \* handler invocations made for each request, in order
    regOps,     \* operations on router.functions made for each request
    response,   \* the response each request was answered with
    settled,    \* what the handler invoked for each request resolved to or raised
    passes,     \* calls of discoverFunctions so far
    finished    \* calls of discoverFunctions that have returned

vars == <<router, isMain, dir, functions, pc, req, idx, calls, regOps,
          response, settled, passes, finished>>

Init ==
    /\ router \in {"static", "dynamic"}
    /\ isMain \in BOOLEAN
    /\ router = "static" => /\ isMain
                            /\ dir = RepoDir
    /\ router = "dynamic" => dir \in Directories
    \* the constructor of the static router runs registerFunctions
    /\ functions = IF router = "static" THEN registerFunctions ELSE EmptyMap
    \* run as main module, the dynamic router awaits discoverFunctions first
    /\ pc = [p \in Procs |->
                IF p = Main
                THEN IF router = "dynamic" /\ isMain THEN "readDir" ELSE "serving"
                ELSE "idle"]
    /\ passes = IF router = "dynamic" /\ isMain THEN 1 ELSE 0
    /\ finished = 0
    /\ req = [r \in Reqs |-> NoRequest]
    /\ idx = [p \in Procs |-> 0]
    /\ calls = [r \in Reqs |-> <<>>]
    /\ regOps = [r \in Reqs |-> <<>>]
    /\ response = [r \in Reqs |-> NoResponse]
    /\ settled = [r \in Reqs |-> NotSettled]
    /\ ApiLoaded

(***************************************************************************)
(* handleRequest                                                           *)
(***************************************************************************)
\* the request is answered
Respond(r, resp, ops) ==
    /\ pc' = [pc EXCEPT ![r] = "done"]
    /\ response' = [response EXCEPT ![r] = resp]
    /\ regOps' = [regOps EXCEPT ![r] = ops]

\* the catch block of the serving router
Catch(v) == IF router = "static" THEN StaticCatch(v) ELSE DynamicCatch(v)

\* the handler raised v: the catch block runs
Caught(r, v, ops) ==
    /\ settled' = [settled EXCEPT ![r] = Raised(v)]
    /\ IF Catch(v).rejected
       THEN /\ pc' = [pc EXCEPT ![r] = "rejected"]
            /\ regOps' = [regOps EXCEPT ![r] = ops]
            /\ UNCHANGED response
       ELSE Respond(r, Catch(v).response, ops)

\* Invoke calling the handler of whichever entry the map yields first
InvokeFirstRegistered(r, rq, functionName) ==
    calls' = [calls EXCEPT ![r] =
        Append(@, [handler |-> functions[CHOOSE n \in DOMAIN functions : TRUE].handler,
                   request |-> rq])]

\* this.functions.get(functionName)!.handler(req)
Invoke(r, rq, functionName) ==
    calls' = [calls EXCEPT ![r] =
        Append(@, [handler |-> functions[functionName].handler, request |-> rq])]

\* handleRequest(rq) from its call to its first await or its return;
\* ops are the registry operations already made for the request
HandleRequest(r, rq, ops) ==
    LET functionName == FunctionName(rq.pathname)
    IN  IF rq.method = "OPTIONS"
        THEN /\ Respond(r, PreflightResponse(corsHeaders), ops)
             /\ UNCHANGED <<calls, settled>>
        ELSE IF IsRoot(rq.pathname)
        THEN /\ Respond(r, createIndexResponse(functions, corsHeaders),
                        Append(ops, "values"))
             /\ UNCHANGED <<calls, settled>>
        ELSE IF functionName \in DOMAIN functions
        THEN /\ Invoke(r, rq, functionName)
                \* the handler returns a value or a promise, or raises
             /\ \/ /\ pc' = [pc EXCEPT ![r] = "await"]
                   /\ regOps' = [regOps EXCEPT ![r] = ops \o <<"has", "get">>]
                   /\ UNCHANGED <<response, settled>>
                \/ \E v \in Thrown : Caught(r, v, ops \o <<"has", "get">>)
        ELSE /\ Respond(r, createErrorResponse(NotFoundMessage(functionName),
                                               corsHeaders, 404),
                        Append(ops, "has"))
             /\ UNCHANGED <<calls, settled>>

\* HandlerSettles whose catch block unregisters the function that raised
HandlerSettlesEvicting(r) ==
    /\ pc[r] = "await"
    /\ \/ /\ \E resp \in HandlerResponses :
                /\ settled' = [settled EXCEPT ![r] = Returned(resp)]
                /\ Respond(r, PassThrough(resp, corsHeaders), regOps[r])
          /\ UNCHANGED functions
       \/ /\ \E v \in Thrown : Caught(r, v, regOps[r])
          /\ functions' = [n \in DOMAIN functions
                                  \ {FunctionName(req[r].pathname)} |->
                              functions[n]]
    /\ UNCHANGED <<router, isMain, dir, req, idx, calls, passes, finished>>
    /\ UNCHANGED apiVars

\* the awaited handler result settles
HandlerSettles(r) ==
    /\ pc[r] = "await"
    /\ \/ \E resp \in HandlerResponses :
              /\ settled' = [settled EXCEPT ![r] = Returned(resp)]
              /\ Respond(r, PassThrough(resp, corsHeaders), regOps[r])
       \/ \E v \in Thrown : Caught(r, v, regOps[r])
    /\ UNCHANGED <<router, isMain, dir, functions, req, idx, calls, passes,
                   finished>>
    /\ UNCHANGED apiVars

(***************************************************************************)
(* The exported handler and discoverFunctions                              *)
(***************************************************************************)
\* RegistryIsEmpty as a run-once guard: true until a first pass has started
RegistryNeverBuilt == passes = 0

\* router.getRegisteredFunctions().length === 0
RegistryIsEmpty == DOMAIN functions = {}

\* a request arrives: handler(req) runs to its first await
Arrive(r, rq) ==
    /\ pc[r] = "idle"
    \* requests are numbered in their order of arrival
    /\ \A q \in Reqs : q < r => pc[q] # "idle"
    /\ pc[Main] = "serving"
    /\ req' = [req EXCEPT ![r] = rq]
    /\ IF router = "static"
       THEN HandleRequest(r, rq, regOps[r]) /\ UNCHANGED <<idx, passes>>
       ELSE IF RegistryIsEmpty
            THEN /\ pc' = [pc EXCEPT ![r] = "readDir"]
                 /\ idx' = [idx EXCEPT ![r] = 0]
                 /\ passes' = passes + 1
                 /\ regOps' = [regOps EXCEPT ![r] = Append(@, "keys")]
                 /\ UNCHANGED <<calls, response, settled>>
            ELSE /\ HandleRequest(r, rq, Append(regOps[r], "keys"))
                 /\ UNCHANGED <<idx, passes>>
    /\ UNCHANGED <<router, isMain, dir, functions, finished>>
    /\ UNCHANGED apiVars

\* discoverFunctions has returned to the process that awaits it
PassOver(p) ==
    /\ pc' = [pc EXCEPT ![p] = IF p = Main THEN "serving" ELSE "resume"]
    /\ finished' = finished + 1

\* the readDir iterator settles: it raises, ends, or yields the next entry
ReadDirNext(p) ==
    /\ pc[p] = "readDir"
    /\ IF ~dir.readable \/ idx[p] = Len(dir.entries)
       THEN PassOver(p) /\ UNCHANGED idx
       ELSE /\ idx' = [idx EXCEPT ![p] = @ + 1]
            /\ pc' = [pc EXCEPT ![p] =
                  IF IsCandidate(dir.entries[idx[p] + 1]) THEN "import"
                  ELSE "readDir"]
            /\ UNCHANGED finished
    /\ UNCHANGED <<router, isMain, dir, functions, req, calls, regOps,
                   response, settled, passes>>
    /\ UNCHANGED apiVars

\* the awaited import() of the current entry settles
ImportSettles(p) ==
    /\ pc[p] = "import"
    /\ LET after == AfterImport(functions, dir.entries[idx[p]])
       IN  /\ functions' = after.functions
           /\ IF after.aborted THEN PassOver(p)
              ELSE pc' = [pc EXCEPT ![p] = "readDir"] /\ UNCHANGED finished
    /\ UNCHANGED <<router, isMain, dir, req, idx, calls, regOps, response,
                   settled, passes>>
    /\ UNCHANGED apiVars

\* handler resumes after await router.discoverFunctions()
Resume(r) ==
    /\ pc[r] = "resume"
    /\ HandleRequest(r, req[r], regOps[r])
    /\ UNCHANGED <<router, isMain, dir, functions, req, idx, passes, finished>>
    /\ UNCHANGED apiVars

Next ==
    \/ \E r \in Reqs, rq \in Requests : Arrive(r, rq)
    \/ \E p \in Procs : ReadDirNext(p)
    \/ \E p \in Procs : ImportSettles(p)
    \/ \E r \in Reqs : Resume(r)
    \/ \E r \in Reqs : HandlerSettles(r)

Spec == Init /\ [][Next]_vars

(***************************************************************************)
(* The api handler serving on its own (Deno.serve of api.ts)               *)
(***************************************************************************)
\* the api request is answered
ApiRespond(a, resp) ==
    /\ apiPc' = [apiPc EXCEPT ![a] = "done"]
    /\ apiResponse' = [apiResponse EXCEPT ![a] = resp]

\* a request arrives: handler(req) runs to its await or to its return
ApiArrive(a, rq) ==
    /\ apiPc[a] = "idle"
    \* requests are numbered in their order of arrival
    /\ \A b \in ApiReqs : b < a => apiPc[b] # "idle"
    /\ apiReq' = [apiReq EXCEPT ![a] = rq]
    /\ IF rq.method = "OPTIONS"
       THEN ApiRespond(a, NewResponse(NullBody, 200, NewHeaders(apiCorsHeaders)))
       ELSE IF rq.method = "GET"
       THEN ApiRespond(a, getResponse(users, rq.limit, rq.offset))
       ELSE IF rq.method = "POST"
       THEN /\ apiPc' = [apiPc EXCEPT ![a] = "json"]
            /\ UNCHANGED apiResponse
       ELSE ApiRespond(a, apiMessage(FALSE,
                <<"Method ", rq.method, " not allowed">>, 405))
    /\ UNCHANGED users
    /\ UNCHANGED vars

\* the awaited req.json() settles and the POST branch runs to its return
JsonSettles(a) ==
    /\ apiPc[a] = "json"
    /\ LET out == apiCatch(PostBody(users, apiReq[a].body))
       IN  /\ users' = out.users
           /\ IF out.kind = "raised"
              THEN /\ apiPc' = [apiPc EXCEPT ![a] = "raised"]
                   /\ UNCHANGED apiResponse
              ELSE ApiRespond(a, out.response)
    /\ UNCHANGED apiReq
    /\ UNCHANGED vars

\* the router is not part of this run
ApiInit == Init /\ router = "static"

ApiNext ==
    \/ \E a \in ApiReqs, rq \in ApiRequests : ApiArrive(a, rq)
    \/ \E a \in ApiReqs : JsonSettles(a)

ApiSpec == ApiInit /\ [][ApiNext]_apiVars

(***************************************************************************)
(* Properties                                                              *)
(***************************************************************************)
\* the step runs handleRequest for r (at arrival, or after the awaited pass)
Dispatches(r) ==
    /\ pc[r] \in {"idle", "resume"}
    /\ pc'[r] \in {"await", "done", "rejected"}

Dispatched(r) == pc[r] \in {"await", "done", "rejected"}

\* some process is inside discoverFunctions
PassRunning == \E p \in Procs : pc[p] \in {"readDir", "import"}

\* C1: a non-OPTIONS request whose first path segment is a registered name
\* has exactly the handler registered under that name invoked, once, with
\* the original request; no other request's handler is invoked by that step
\* and none is invoked before or after it, whatever else is in flight.
C1_RoutesToRegisteredHandler ==
    [][\A r \in Reqs :
          /\ ( /\ Dispatches(r)
               /\ req'[r].method # "OPTIONS"
               /\ FunctionName(req'[r].pathname) \in DOMAIN functions )
             => /\ calls'[r] =
                     << [handler |->
                            functions[FunctionName(req'[r].pathname)].handler,
                         request |-> req'[r]] >>
                /\ \A q \in Reqs \ {r} : calls'[q] = calls[q]
          /\ Dispatched(r) => calls'[r] = calls[r]
          /\ ~Dispatched(r)' => calls'[r] = <<>>
      ]_vars

C1_Witness ==
    \E r, q \in Reqs :
        /\ router = "dynamic"
        /\ pc[r] = "done" /\ Len(calls[r]) = 1
        /\ pc[q] = "await" /\ Len(calls[q]) = 1
        /\ calls[r][1].handler # calls[q][1].handler

\* C2: a non-OPTIONS request whose first path segment is not a registered
\* name is answered 404 with success false and the message
\* "Function '<name>' not found", and no handler is invoked.
C2_UnregisteredIs404 ==
    [][\A r \in Reqs :
          ( /\ Dispatches(r)
            /\ req'[r].method # "OPTIONS"
            /\ ~IsRoot(req'[r].pathname)
            /\ FunctionName(req'[r].pathname) \notin DOMAIN functions )
          => /\ pc'[r] = "done"
             /\ response'[r].status = 404
             /\ response'[r].body.kind = "json"
             /\ response'[r].body.success = FALSE
             /\ response'[r].body.message =
                    <<"Function '">> \o FunctionName(req'[r].pathname)
                                     \o <<"' not found">>
             /\ calls'[r] = <<>>
      ]_vars

C2_Witness ==
    \E r \in Reqs :
        /\ pc[r] = "done"
        /\ req[r].pathname = <<Slash, "weather">>
        /\ response[r].status = 404
        /\ DOMAIN functions # {}

\* C3: a handler that raises, whatever it raises, is answered 500 with
\* success false, and dispatch does not reject.
C3_RaiseYields500 ==
    \A r \in Reqs :
        settled[r].kind = "raised"
        => /\ pc[r] = "done"
           /\ response[r].status = 500
           /\ response[r].body.kind = "json"
           /\ response[r].body.success = FALSE

C5_PreflightBeforeRegistry ==
    \A r \in Reqs :
        (pc[r] # "idle" /\ req[r].method = "OPTIONS")
        => /\ calls[r] = <<>>
           /\ regOps[r] = <<>>
           /\ pc[r] = "done"
              => /\ response[r].status = 200
                 /\ response[r].body = NullBody
                 /\ HeadersGet(response[r].headers, ACAO) = "*"

\* C6: the index response holds in its data one {name, endpoint} entry for
\* every registered name and for no other.
C6_IndexListsRegistry ==
    \A r \in Reqs :
        (pc[r] = "done" /\ req[r].method # "OPTIONS" /\ IsRoot(req[r].pathname))
        => /\ "data" \in DOMAIN response[r].body
           /\ {[name |-> e.name, endpoint |-> e.endpoint] : e \in response[r].body.data}
                = {[name |-> n, endpoint |-> <<Slash>> \o n] : n \in DOMAIN functions}

\* C7: the dynamic router starts at most one discovery pass.
C7_SinglePass == router = "dynamic" => passes <= 1

\* C8: once every discovery pass has finished, the registry of the dynamic
\* router is the one a single uninterrupted pass over the directory builds.
C8_ConvergesToSequential ==
    (router = "dynamic" /\ passes >= 1 /\ ~PassRunning)
    => functions = DiscoverFrom(EmptyMap, dir, 1)

C8_Witness ==
    /\ router = "dynamic"
    /\ passes >= 2
    /\ ~PassRunning
    /\ Cardinality(DOMAIN functions) >= 2

\* C9: after a pass over a readable directory every unit that loads and has
\* a default function is registered, whatever the other units do.
C9_GoodUnitsRegistered ==
    (router = "dynamic" /\ passes >= 1 /\ ~PassRunning /\ dir.readable)
    => \A i \in 1..Len(dir.entries) :
          LET e == dir.entries[i]
          IN  (IsCandidate(e) /\ e.loads /\ e.defaultIsFunction)
              => FunctionNameOf(e) \in DOMAIN functions

RouterGenerated(r) == pc[r] = "done" /\ settled[r].kind # "returned"

\* C11: a CORS header set by the handler's response keeps the handler's
\* value in the response that leaves the router.
C11_HandlerOverridesCors ==
    \A r \in Reqs :
        (pc[r] = "done" /\ settled[r].kind = "returned")
        => \A k \in CorsNames :
              HeadersHas(settled[r].response.headers, k)
              => HeadersGet(response[r].headers, k) =
                     HeadersGet(settled[r].response.headers, k)

\* JSON text of { success: boolean, message: string, data?, timestamp }
IsEnvelope(b) ==
    /\ b.kind = "json"
    /\ {"success", "message", "timestamp"} \subseteq DOMAIN b
    /\ DOMAIN b \subseteq {"kind", "success", "message", "data", "timestamp"}
    /\ b.success \in BOOLEAN
    /\ b.message \in Seq(STRING)
    /\ b.timestamp = <<"ISO-8601">>

\* success is false on 404 and 500 and true on the index
EnvelopeFlag(r) ==
    /\ response[r].status \in {404, 500} => response[r].body.success = FALSE
    /\ req[r].pathname \in {<<Slash>>, <<>>} => response[r].body.success = TRUE

\* C12 as stated: every router-generated response, the preflight included,
\* has the Envelope shape.
C12_AllRouterResponsesEnveloped ==
    \A r \in Reqs :
        RouterGenerated(r) => IsEnvelope(response[r].body) /\ EnvelopeFlag(r)

\* C12 as amended: the index, 404 and 500 responses have the Envelope shape
\* with success false on 404 and 500 and true on the index; the preflight
\* response has an empty body.
C12_BodiedRouterResponsesEnveloped ==
    \A r \in Reqs :
        RouterGenerated(r)
        => IF req[r].method = "OPTIONS"
           THEN response[r].body = NullBody
           ELSE IsEnvelope(response[r].body) /\ EnvelopeFlag(r)

C12_Witness ==
    \E r, q \in Reqs :
        /\ RouterGenerated(r) /\ req[r].method = "POST"
        /\ req[r].pathname = <<Slash>>
        /\ RouterGenerated(q) /\ response[q].status = 500
        /\ settled[q].value.kind = "string"

\* the one-time build step is over: the static constructor has run, or a
\* call of discoverFunctions has returned
Populated == router = "static" \/ finished >= 1

\* C13: once the registry has been populated no step changes it: handling
\* a request does not, and neither does a further or still-running pass.
C13_PopulatedIsImmutable == [][Populated => functions' = functions]_vars

C13_Witness ==
    /\ router = "dynamic"
    /\ finished >= 2
    /\ Cardinality(DOMAIN functions) >= 2
    /\ \E r \in Reqs : pc[r] = "done" /\ calls[r] # <<>>

\* C14: under the dynamic router an index response is computed only from
\* the fully constructed registry, never from one a pass is still filling.
C14_IndexFromFullRegistry ==
    [][\A r \in Reqs :
          ( /\ router = "dynamic"
            /\ Dispatches(r)
            /\ req'[r].method # "OPTIONS"
            /\ req'[r].pathname \in {<<Slash>>, <<>>} )
          => functions = DiscoverFrom(EmptyMap, dir, 1)
      ]_vars

\* C15: no request ends in an unhandled failure: the promise the exported
\* handler returns is never rejected.
C15_NoUnhandledFailure == \A r \in Reqs : pc[r] # "rejected"

C17_RoutersAgree ==
    /\ (router = "dynamic" /\ dir = RepoDir /\ finished >= 1 /\ ~PassRunning)
       => DOMAIN functions = DOMAIN registerFunctions
    /\ \A r \in Reqs :
          (dir = RepoDir /\ settled[r].kind = "raised")
          => /\ pc[r] = "done"
             /\ \A c \in {StaticCatch(settled[r].value),
                          DynamicCatch(settled[r].value)} :
                   /\ ~c.rejected
                   /\ c.response.status = response[r].status
                   /\ c.response.body.message = response[r].body.message
                   /\ \A k \in CorsNames :
                         HeadersGet(c.response.headers, k) =
                             HeadersGet(response[r].headers, k)

\* C18: a further pass over the unchanged directory leaves the registry that
\* the finished passes built as it is.
C18_DiscoveryIdempotent ==
    (router = "dynamic" /\ finished >= 1 /\ ~PassRunning)
    => DiscoverFrom(functions, dir, 1) = functions

C18_Witness ==
    /\ router = "dynamic"
    /\ finished >= 2
    /\ ~PassRunning
    /\ Cardinality(DOMAIN functions) = 3

\* C19: a request for the root path with a method other than OPTIONS is
\* answered by the index responder, 200 with success true, with no lookup
\* by name and no handler invoked, also when the registry is empty.
C19_RootIsIndex ==
    \A r \in Reqs :
        ( /\ Dispatched(r)
          /\ req[r].method # "OPTIONS"
          /\ req[r].pathname \in {<<Slash>>, <<>>} )
        => /\ pc[r] = "done"
           /\ response[r].status = 200
           /\ response[r].body.kind = "json"
           /\ response[r].body.success = TRUE
           /\ calls[r] = <<>>
           /\ \A i \in 1..Len(regOps[r]) : regOps[r][i] \notin {"has", "get"}

C19_Witness ==
    \E r \in Reqs :
        /\ pc[r] = "done"
        /\ req[r] = [method |-> "POST", pathname |-> <<Slash>>]
        /\ response[r].status = 200
        /\ router = "dynamic"
        /\ DOMAIN functions = {}

\* C20: two non-OPTIONS requests with the same first path segment are
\* routed alike: to the same handler, or both to the same 404, whatever was
\* handled before them.
C20_SameSegmentSameRoute ==
    \A r, q \in Reqs :
        ( /\ Dispatched(r) /\ Dispatched(q)
          /\ req[r].method # "OPTIONS" /\ req[q].method # "OPTIONS"
          /\ ~IsRoot(req[r].pathname) /\ ~IsRoot(req[q].pathname)
          /\ FunctionName(req[r].pathname) = FunctionName(req[q].pathname) )
        => /\ calls[r] = <<>> <=> calls[q] = <<>>
           /\ (calls[r] # <<>> /\ calls[q] # <<>>)
              => calls[r][1].handler = calls[q][1].handler
           /\ (calls[r] = <<>> /\ calls[q] = <<>>)
              => /\ response[r].status = 404
                 /\ response[q].status = 404
                 /\ response[r].body = response[q].body

\* C21: under the dynamic router a non-OPTIONS request for a name that a
\* pass over the directory registers is never answered 404, whenever it
\* arrives.
C21_NoLookupDuringPass ==
    \A r \in Reqs :
        ( /\ router = "dynamic"
          /\ pc[r] = "done"
          /\ req[r].method # "OPTIONS"
          /\ ~IsRoot(req[r].pathname)
          /\ FunctionName(req[r].pathname)
                 \in DOMAIN DiscoverFrom(EmptyMap, dir, 1) )
        => response[r].status # 404

\* C22: the set of registered names only grows: no step removes a name, and
\* a registry that holds a name never becomes empty again, under either
\* router and whatever requests and passes are in flight.
C22_RegistryOnlyGrows ==
    [][/\ DOMAIN functions \subseteq DOMAIN functions'
       /\ DOMAIN functions # {} => DOMAIN functions' # {}
       /\ \A n \in DOMAIN functions : functions'[n] = functions[n]
      ]_vars

C22_Witness ==
    /\ router = "dynamic"
    /\ passes >= 2
    /\ \E p \in Reqs : pc[p] = "import" /\ FunctionNameOf(dir.entries[idx[p]]) \in DOMAIN functions
    /\ Cardinality(DOMAIN functions) = 3

\* the step answers r with 404 or 500, or lets its handler's raise escape
Fails(r) ==
    /\ pc[r] \notin {"done", "rejected"}
    /\ \/ pc'[r] = "rejected"
       \/ pc'[r] = "done" /\ response'[r].status \in {404, 500}

\* some request has been answered 404 or 500
SomeFailed == \E q \in Reqs : pc[q] = "done" /\ response[q].status \in {404, 500}

\* C23: a step that ends a request in 404 or in a handler raise leaves the
\* registry, names and handler bindings, as it was, and leaves every other
\* request untouched; a request dispatched after such a failure is routed
\* by the registry alone: to the handler registered under its first path
\* segment, to 404 when there is none.
C23_FailureIsolated ==
    [][\A r \in Reqs :
          /\ Fails(r)
             => /\ functions' = functions
                /\ \A q \in Reqs \ {r} :
                      /\ pc'[q] = pc[q]
                      /\ calls'[q] = calls[q]
                      /\ response'[q] = response[q]
                      /\ settled'[q] = settled[q]
          /\ ( /\ SomeFailed
               /\ Dispatches(r)
               /\ req'[r].method # "OPTIONS"
               /\ ~IsRoot(req'[r].pathname) )
             => IF FunctionName(req'[r].pathname) \in DOMAIN functions
                THEN /\ Len(calls'[r]) = 1
                     /\ calls'[r][1].handler =
                            functions[FunctionName(req'[r].pathname)].handler
                ELSE calls'[r] = <<>> /\ response'[r].status = 404
      ]_vars

C23_Witness ==
    /\ router = "static"
    /\ pc[1] = "done" /\ response[1].status = 404
    /\ pc[2] = "done" /\ response[2].status = 500
    /\ calls[2] = << [handler |-> helloHandler, request |-> req[2]] >>
    /\ functions = registerFunctions

\* a file name without its trailing extension
WithoutExtension(name) == SubSeq(name, 1, Len(name) - 1)

\* C24: after the passes over a readable directory the registered names are
\* exactly the names, with the trailing ".ts" removed, of the regular files
\* that end in ".ts", are not router.ts, load and have a default function.
C24_RegisteredIffGoodUnit ==
    (router = "dynamic" /\ finished >= 1 /\ ~PassRunning /\ dir.readable)
    => DOMAIN functions =
          { WithoutExtension(dir.entries[i].name) :
              i \in { j \in 1..Len(dir.entries) :
                        /\ dir.entries[j].isFile
                        /\ EndsWith(dir.entries[j].name, ".ts")
                        /\ dir.entries[j].name # <<"router", ".ts">>
                        /\ dir.entries[j].loads
                        /\ dir.entries[j].defaultIsFunction } }

ApiAnswers(a) == apiPc[a] # "done" /\ apiPc'[a] = "done"

\* every id is the 1-based position of its user, so ids are pairwise distinct
IdsArePositions ==
    /\ \A i \in 1..Len(users) : users[i].id = i
    /\ \A i, j \in 1..Len(users) : i # j => users[i].id # users[j].id

\* C26: in the user store every id equals the 1-based position of its user
\* and ids are pairwise distinct, however POST requests suspended on their
\* body interleave; a POST answered 201 appends exactly one user, and no
\* step removes or modifies a user.
C26_IdsUniqueAndSequential ==
    /\ []IdsArePositions
    /\ [][/\ Len(users') >= Len(users)
          /\ SubSeq(users', 1, Len(users)) = users
          /\ \A a \in ApiReqs :
                (ApiAnswers(a) /\ apiResponse'[a].status = 201)
                => /\ Len(users') = Len(users) + 1
                   /\ users'[Len(users')].name = apiReq[a].body.name
                   /\ users'[Len(users')].email = apiReq[a].body.email
                   /\ apiResponse'[a].body.data = users'[Len(users')]
         ]_apiVars

C26_Witness ==
    /\ apiPc[1] = "json"
    /\ \A a \in ApiReqs \ {1} : apiPc[a] = "done" /\ apiResponse[a].status = 201
    /\ Len(users) = Len(InitialUsers) + MaxApiReqs - 1

\* the status api.ts gives a request, read off the request alone
ExpectedStatus(rq) ==
    CASE rq.method \in {"OPTIONS", "GET"} -> 200
      [] rq.method = "POST" ->
            IF rq.body.kind \in {"unparseable", "null"} THEN 500
            ELSE IF rq.body.name \in {UndefinedValue, Str(<<>>)}
                    \/ rq.body.email \in {UndefinedValue, Str(<<>>)}
            THEN 400
            ELSE 201
      [] OTHER -> 405

\* C27: the api handler never raises, and its store changes only in the
\* step that answers a POST with 201: OPTIONS and GET (200), a POST without
\* name or email (400), a POST whose body cannot be read (500) and any
\* other method (405) are answered with that status and leave the store as
\* it was.
C27_StoreChangesOnlyOn201 ==
    /\ [](\A a \in ApiReqs : apiPc[a] # "raised")
    /\ [][/\ \A a \in ApiReqs :
                ApiAnswers(a)
                => /\ apiResponse'[a].status = ExpectedStatus(apiReq'[a])
                   /\ apiResponse'[a].status # 201 => users' = users
          /\ users' # users
             => \E a \in ApiReqs :
                   ApiAnswers(a) /\ apiResponse'[a].status = 201
         ]_apiVars

C27_Witness ==
    /\ \A a \in ApiReqs : apiPc[a] = "done"
    /\ {apiResponse[a].status : a \in ApiReqs} = {400, 500, 405}
    /\ \E a \in ApiReqs : apiReq[a].body.kind = "null"
    /\ users = InitialUsers

====
